---------------------------- MODULE Spec2Model ----------------------------
(***************************************************************************)
(* A model of the ore-boost rebase worker: the stake batcher of            *)
(* rebase_all, the lookup-table registry file, the lookup-table manager    *)
(* (open_new, close_prior) and the checkpoint loop.                        *)
(*                                                                         *)
(* Each part has its own specification over its own group of variables;    *)
(* the variables of the other parts stay at their idle values.             *)
(***************************************************************************)
EXTENDS Integers, Sequences, FiniteSets, TLC

VARIABLES
    \* the stake batcher (rebase_all, checkpoint.rs 209-228) as a pure function
    batch_pc, batch_accounts, batch_k, batch_b, batch_txs, batch_bundles,
    \* the registry file of one pool (lookup_tables.rs 147-207), byte by byte
    file_exists,    \* whether the file at {LUTS_PATH}-{boost} exists
    file_bytes,     \* its content
    file_segments,  \* history: what was appended to it, in order
    file_read,      \* the result of the last read_file since the last change
    \* the lookup-table manager (lookup_tables.rs 20-145) of one pool
    lut_pc,         \* where the manager is, or how its last call ended
    lut_accounts,   \* the stake accounts open_new is called with
    lut_calls,      \* how many calls of open_new and close_prior were started
    lut_slot,       \* the ledger's clock.slot
    lut_tables,     \* the ledger's lookup tables, by address
    lut_registry,   \* the pool's registry file, as its records
    lut_local,      \* the local variables of the running call
    lut_log,        \* history: the transactions and bundles submitted
    \* run and the rebase cycle (checkpoint.rs) of one pool, and the ledger
    ctl_pc,          \* where the controller is
    ctl_n,           \* the number of stake accounts of the boost, ids 0..n-1
    ctl_checkpoint,  \* the ledger's checkpoint account: ts and current_id
    ctl_clock,       \* the ledger's clock.unix_timestamp
    ctl_rebased,     \* ledger: how often each stake was rebased this interval
    ctl_local,       \* the controller's local variables
    ctl_submits,     \* history: rebase submissions made in the current pass
    ctl_interrupted, \* history: the process was ended mid-cycle this interval
    ctl_log,         \* history: the calls and submissions made in this pass
    \* the registry files of several pools (lookup_tables.rs 147-212)
    pool_luts_path,  \* the environment's LUTS_PATH
    pool_files,      \* the file system: path -> registry file
    pool_op          \* the last call: function, boost and what it returned

batchVars == <<batch_pc, batch_accounts, batch_k, batch_b, batch_txs, batch_bundles>>

fileVars == <<file_exists, file_bytes, file_segments, file_read>>

lutVars == <<lut_pc, lut_accounts, lut_calls, lut_slot, lut_tables,
             lut_registry, lut_local, lut_log>>

ctlVars == <<ctl_pc, ctl_n, ctl_checkpoint, ctl_clock, ctl_rebased, ctl_local,
             ctl_submits, ctl_interrupted, ctl_log>>

poolVars == <<pool_luts_path, pool_files, pool_op>>

vars == <<batch_pc, batch_accounts, batch_k, batch_b, batch_txs, batch_bundles,
          file_exists, file_bytes, file_segments, file_read,
          lut_pc, lut_accounts, lut_calls, lut_slot, lut_tables,
          lut_registry, lut_local, lut_log,
          ctl_pc, ctl_n, ctl_checkpoint, ctl_clock, ctl_rebased, ctl_local,
          ctl_submits, ctl_interrupted, ctl_log,
          pool_luts_path, pool_files, pool_op>>

-----------------------------------------------------------------------------
(* Program constants *)

\* checkpoint.rs:11
MAX_ACCOUNTS_PER_TX == 38
\* checkpoint.rs:221, bundles.chunks(4)
BUNDLE_SIZE == 4

\* lookup_tables.rs:191, a Pubkey is [u8; 32]
PUBKEY_BYTES == 32
\* lookup_tables.rs:167 and 184, the delimiter b'\n'
NEWLINE == 10

\* lookup_tables.rs:17
MAX_ACCOUNTS_PER_LUT == 256
\* lookup_tables.rs:18
MAX_ACCOUNTS_PER_TX_CLOSE == 10
\* lookup_tables.rs:90, chunk.chunks(26): the addresses of one extend
EXTEND_CHUNK == 26
\* lookup_tables.rs:98, bundles.len().eq(&5): the extends of one bundle
EXTEND_BUNDLE == 5

(* Bounds of the model *)

\* open_new is called with every number of stake accounts that is within
\* this distance of 0, of one extend, of one bundle of extends or of one table
SizeSlack == 1
\* open_new and close_prior are called at most this many times in a run
MaxLutCalls == 2
\* The slot the model's clock stops counting at: above every slot a call of
\* open_new reads
MaxSlot == 20
\* ore_boost_api::consts::CHECKPOINT_INTERVAL (imported at checkpoint.rs:4, its
\* value is not set in this repository), in units of the ledger's clock
CHECKPOINT_INTERVAL == 2
\* the ledger's clock.unix_timestamp is at most this
MaxClock == 5

\* the registry file receives at most this many appends between two clears
MaxAppends == 3

\* the batcher is applied to every remaining set of at most this many accounts
MaxBatchLen == 300
\* and with every chunk size up to this one, besides MAX_ACCOUNTS_PER_TX
MaxChunkSize == 10
\* and with every bundle size up to this one, besides BUNDLE_SIZE
MaxBundleSize == 3

-----------------------------------------------------------------------------
(* Helpers *)

Min(a, b) == IF a <= b THEN a ELSE b

Max(a, b) == IF a >= b THEN a ELSE b

\* ceil(n / k) for k > 0
CeilDiv(n, k) == (n + k - 1) \div k

\* The address of the stake account with the given stake id. Addresses fall as
\* ids rise, so that an order by id differs from an order by address.
StakePubkey(id) == 100000 - id

\* the stake id of the account at an address
StakeIdOf(pubkey) == 100000 - pubkey

\* Pubkey::default()
DefaultPubkey == 0

-----------------------------------------------------------------------------
(* The stake batcher *)

\* <[T]>::chunks_exact(k): as chunks, without the short last chunk
ChunksExact(s, k) ==
    [i \in 1..(Len(s) \div k) |-> SubSeq(s, (i - 1) * k + 1, i * k)]

\* <[T]>::chunks(k): successive sub-slices of k elements taken from the front,
\* the last one holding what is left (k > 0: chunks panics on a chunk size of 0)
Chunks(s, k) ==
    [i \in 1..CeilDiv(Len(s), k) |->
        SubSeq(s, (i - 1) * k + 1, Min(i * k, Len(s)))]

\* ore_boost_api::sdk::rebase(signer, mint, account): the signer and the mint
\* are the same in every instruction of a pool
RebaseIx(account) == [program |-> "rebase", account |-> account]

\* rebase_all, the first loop: one transaction of rebase instructions per chunk
\* of k stake accounts
rebase_transactions(stake_accounts, k) ==
    LET chunks == Chunks(stake_accounts, k)
    IN  [i \in DOMAIN chunks |->
            [j \in DOMAIN chunks[i] |-> RebaseIx(chunks[i][j])]]

\* a variant that drops the transactions left over after the last full bundle
BundlesExact(transactions, b) == ChunksExact(transactions, b)

\* rebase_all, the second loop: the transactions in bundles of b
rebase_bundles(transactions, b) == Chunks(transactions, b)

BatchChunkSizes == (1..MaxChunkSize) \cup {MAX_ACCOUNTS_PER_TX}

BatchBundleSizes == (1..MaxBundleSize) \cup {BUNDLE_SIZE}

\* the remaining set: n addresses in ascending id order
RemainingOf(n) == [i \in 1..n |-> StakePubkey(i - 1)]

BatchIdle ==
    /\ batch_pc = "idle"
    /\ batch_accounts = <<>>
    /\ batch_k = 0
    /\ batch_b = 0
    /\ batch_txs = <<>>
    /\ batch_bundles = <<>>

BatchStart ==
    /\ batch_pc = "input"
    /\ \E n \in 0..MaxBatchLen : batch_accounts = RemainingOf(n)
    /\ batch_k \in BatchChunkSizes
    /\ batch_b \in BatchBundleSizes
    /\ batch_txs = <<>>
    /\ batch_bundles = <<>>

BatchPartition ==
    /\ batch_pc = "input"
    /\ batch_txs' = rebase_transactions(batch_accounts, batch_k)
    /\ batch_pc' = "chunked"
    /\ UNCHANGED <<batch_accounts, batch_k, batch_b, batch_bundles>>
    /\ UNCHANGED <<fileVars, lutVars, ctlVars, poolVars>>

BatchBundle ==
    /\ batch_pc = "chunked"
    /\ batch_bundles' = rebase_bundles(batch_txs, batch_b)
    /\ batch_pc' = "bundled"
    /\ UNCHANGED <<batch_accounts, batch_k, batch_b, batch_txs>>
    /\ UNCHANGED <<fileVars, lutVars, ctlVars, poolVars>>

-----------------------------------------------------------------------------
(* The registry file *)

\* Lookup-table addresses as byte arrays: the zero address and the addresses
\* with one byte b at position p, at the first and the last position, b an
\* ordinary byte or the delimiter.
LutBytes(p, b) == [i \in 1..PUBKEY_BYTES |-> IF i = p THEN b ELSE 0]

FileLuts ==
    {LutBytes(p, b) : p \in {1, PUBKEY_BYTES}, b \in {0, 1, NEWLINE}}

\* Lines that are no record: an empty line, a short one and a long one
JunkLines ==
    {[i \in 1..n |-> 7] : n \in {0, PUBKEY_BYTES - 1, PUBKEY_BYTES + 1}}

\* write_file: every address, then the delimiter, appended to the file
\* (only ever called with one address, by open_new)
write_file(bytes, luts) ==
    IF Len(luts) = 0 THEN bytes ELSE bytes \o luts[1] \o <<NEWLINE>>

\* BufRead::read_until(b'\n'): the bytes up to and including the first
\* delimiter, or all of them when there is none
read_until(bytes) ==
    IF \E i \in DOMAIN bytes : bytes[i] = NEWLINE
    THEN SubSeq(bytes, 1,
                CHOOSE i \in DOMAIN bytes :
                    /\ bytes[i] = NEWLINE
                    /\ \A j \in 1..(i - 1) : bytes[j] # NEWLINE)
    ELSE bytes

\* Vec::pop: the vector without its last element
Pop(line) == IF Len(line) = 0 THEN line ELSE SubSeq(line, 1, Len(line) - 1)

\* read_file's loop: read a line, pop its last byte, keep it when 32 bytes
\* are left, go on with the next line
RECURSIVE read_lines(_)
read_lines(bytes) ==
    IF Len(bytes) = 0 THEN <<>>
    ELSE LET line == read_until(bytes)
             rest == SubSeq(bytes, Len(line) + 1, Len(bytes))
             pubkey == Pop(line)
         IN  (IF Len(pubkey) = PUBKEY_BYTES THEN <<pubkey>> ELSE <<>>)
                 \o read_lines(rest)

\* read_file: Err when the file cannot be opened, else the addresses parsed
read_file(exists, bytes) ==
    IF exists
    THEN [ok |-> TRUE, luts |-> read_lines(bytes)]
    ELSE [ok |-> FALSE, luts |-> <<>>]

NoRead == [ok |-> FALSE, luts |-> <<"none">>]

FileIdle ==
    /\ file_exists = FALSE
    /\ file_bytes = <<>>
    /\ file_segments = <<>>
    /\ file_read = NoRead

\* write_file(&[lut], boost), complete
FileWrite ==
    /\ Len(file_segments) < MaxAppends
    /\ \E lut \in FileLuts :
         /\ file_bytes' = write_file(file_bytes, <<lut>>)
         /\ file_segments' =
                Append(file_segments, [kind |-> "record", bytes |-> lut])
    /\ file_exists' = TRUE
    /\ file_read' = NoRead
    /\ UNCHANGED <<batchVars, lutVars, ctlVars, poolVars>>

\* write_file(&[lut], boost), the process ending between its two write_all
\* calls: the address is on file and the delimiter is not
FileWriteTorn ==
    /\ Len(file_segments) < MaxAppends
    /\ \E lut \in FileLuts :
         /\ file_bytes' = file_bytes \o lut
         /\ file_segments' =
                Append(file_segments, [kind |-> "torn", bytes |-> lut])
    /\ file_exists' = TRUE
    /\ file_read' = NoRead
    /\ UNCHANGED <<batchVars, lutVars, ctlVars, poolVars>>

\* a line that is no record gets into the file (local corruption)
FileCorrupt ==
    /\ file_exists
    /\ Len(file_segments) < MaxAppends
    /\ \E junk \in JunkLines :
         /\ file_bytes' = file_bytes \o junk \o <<NEWLINE>>
         /\ file_segments' =
                Append(file_segments, [kind |-> "junk", bytes |-> junk])
    /\ UNCHANGED file_exists
    /\ file_read' = NoRead
    /\ UNCHANGED <<batchVars, lutVars, ctlVars, poolVars>>

\* read_file(boost)
FileRead ==
    /\ file_read = NoRead
    /\ file_read' = read_file(file_exists, file_bytes)
    /\ UNCHANGED <<file_exists, file_bytes, file_segments>>
    /\ UNCHANGED <<batchVars, lutVars, ctlVars, poolVars>>

\* clear_file(boost): File::create makes the file or truncates it
FileClear ==
    /\ file_exists' = TRUE
    /\ file_bytes' = <<>>
    /\ file_segments' = <<>>
    /\ file_read' = NoRead
    /\ UNCHANGED <<batchVars, lutVars, ctlVars, poolVars>>

FileNext ==
    FileWrite \/ FileWriteTorn \/ FileCorrupt \/ FileRead \/ FileClear

-----------------------------------------------------------------------------
(* The lookup-table manager *)

\* The numbers of stake accounts open_new is called with
LutSizes ==
    {n \in 0..(MAX_ACCOUNTS_PER_LUT + SizeSlack) :
        \E b \in {0, EXTEND_CHUNK, EXTEND_CHUNK * EXTEND_BUNDLE,
                  MAX_ACCOUNTS_PER_LUT} :
            n >= b - SizeSlack /\ n <= b + SizeSlack}

\* How a submission ends: accepted and reported so, not accepted and reported
\* so, or accepted with the confirmation lost (reported as an error)
TxOutcomes == {"ok", "err", "lost"}

Landed(outcome) == outcome # "err"

\* create_lookup_table(signer, signer, clock.slot): the table's address is
\* derived from the authority and the slot
LutPda(slot) == 500 + slot

\* the ledger's state of a table: "none" before it is created
StatusOf(tables, lut) ==
    IF lut \in DOMAIN tables THEN tables[lut].status ELSE "none"

\* extend_lookup_table(lut_pda, signer, Some(signer), sub.to_vec())
ExtendIx(lut_pda, sub) == [lut |-> lut_pda, accounts |-> sub]

\* open_new, the loop over chunk.chunks(26): an extend per sub-chunk is pushed
\* on bundles, which is sent and cleared whenever it holds 5; what is left is
\* sent after the loop. The bundles in the order they are sent.
RECURSIVE extend_loop(_, _, _, _, _)
extend_loop(subs, i, lut_pda, bundles, sent) ==
    IF i > Len(subs)
    THEN IF Len(bundles) # 0 THEN Append(sent, bundles) ELSE sent
    ELSE LET pushed == Append(bundles, ExtendIx(lut_pda, subs[i]))
         IN  IF Len(pushed) = EXTEND_BUNDLE
             THEN extend_loop(subs, i + 1, lut_pda, <<>>, Append(sent, pushed))
             ELSE extend_loop(subs, i + 1, lut_pda, pushed, sent)

\* a variant of extend_bundles whose extends carry chunk, not sub
extend_bundles_of_chunk(chunk, lut_pda) ==
    extend_loop([i \in DOMAIN Chunks(chunk, EXTEND_CHUNK) |-> chunk],
                1, lut_pda, <<>>, <<>>)

extend_bundles(chunk, lut_pda) ==
    extend_loop(Chunks(chunk, EXTEND_CHUNK), 1, lut_pda, <<>>, <<>>)

\* the ledger applying an accepted bundle of extends, instruction by instruction
RECURSIVE ApplyExtends(_, _)
ApplyExtends(tables, ixs) ==
    IF Len(ixs) = 0 THEN tables
    ELSE LET ix == ixs[1]
         IN  ApplyExtends(
                 [tables EXCEPT ![ix.lut].addresses = @ \o ix.accounts],
                 Tail(ixs))

\* the ledger accepts a bundle of extends only for tables that are active
ExtendValid(tables, ixs) ==
    \A i \in DOMAIN ixs : StatusOf(tables, ixs[i].lut) = "active"

\* the ledger accepts a deactivate transaction only if every table it names is
\* active, and a close transaction only if every table it names is deactivated
\* and past the cooldown (a transaction is applied whole or not at all)
DeactivateValid(tables, luts) ==
    \A i \in DOMAIN luts : StatusOf(tables, luts[i]) = "active"

CloseValid(tables, luts) ==
    \A i \in DOMAIN luts : StatusOf(tables, luts[i]) = "cooled"

SetStatus(tables, luts, status) ==
    [t \in DOMAIN tables |->
        IF \E i \in DOMAIN luts : luts[i] = t
        THEN [tables[t] EXCEPT !.status = status]
        ELSE tables[t]]

InRegistry(registry, lut) ==
    \E i \in DOMAIN registry.records : registry.records[i] = lut

\* one entry of the history of submissions: the tables named, their state on
\* the ledger and whether the registry listed them when it was submitted
LogEntry(op, luts, ixs, outcome, applied) ==
    [op |-> op,
     luts |-> luts,
     ixs |-> ixs,
     status |-> [i \in DOMAIN luts |-> StatusOf(lut_tables, luts[i])],
     registered |-> [i \in DOMAIN luts |-> InRegistry(lut_registry, luts[i])],
     outcome |-> outcome,
     applied |-> applied,
     call |-> lut_calls]

NoLocal ==
    [chunk |-> 0, clock_slot |-> 0, lut_pda |-> 0, bundle |-> 0,
     lookup_tables |-> <<>>, luts |-> <<>>]

\* between two calls: before the first, after a return, after the process
\* was ended
LutIdlePcs == {"idle", "open_ok", "open_err", "close_ok", "close_err", "ended"}

LutIdle ==
    /\ lut_pc = "idle"
    /\ lut_accounts = <<>>
    /\ lut_calls = 0
    /\ lut_slot = 0
    /\ lut_tables = <<>>
    /\ lut_registry = [exists |-> FALSE, records |-> <<>>]
    /\ lut_local = NoLocal
    /\ lut_log = <<>>

LutStart ==
    /\ lut_pc = "idle"
    /\ \E n \in LutSizes : lut_accounts = RemainingOf(n)
    /\ lut_calls = 0
    /\ lut_slot = 1
    /\ lut_tables = <<>>
    /\ lut_registry = [exists |-> FALSE, records |-> <<>>]
    /\ lut_local = NoLocal
    /\ lut_log = <<>>

\* the chunk of stake accounts open_new is working on
OpenChunks == Chunks(lut_accounts, MAX_ACCOUNTS_PER_LUT)

\* open_new is called (lines 68-76)
CallOpenNew ==
    /\ lut_pc \in LutIdlePcs
    /\ lut_calls < MaxLutCalls
    /\ lut_calls' = lut_calls + 1
    /\ lut_local' = [NoLocal EXCEPT !.chunk = 1]
    /\ lut_pc' = IF Len(OpenChunks) = 0 THEN "open_ok" ELSE "open_clock"
    /\ UNCHANGED <<lut_accounts, lut_slot, lut_tables, lut_registry, lut_log>>
    /\ UNCHANGED <<batchVars, fileVars, ctlVars, poolVars>>

\* open_new, line 77: get_clock
OpenGetClock ==
    /\ lut_pc = "open_clock"
    /\ \/ /\ lut_local' = [lut_local EXCEPT !.clock_slot = lut_slot]
          /\ lut_pc' = "open_create"
       \/ /\ lut_local' = lut_local
          /\ lut_pc' = "open_err"
    /\ lut_slot' = lut_slot + 1
    /\ UNCHANGED <<lut_accounts, lut_calls, lut_tables, lut_registry, lut_log>>
    /\ UNCHANGED <<batchVars, fileVars, ctlVars, poolVars>>

\* open_new, lines 78-83: the create instruction is built and submitted
OpenCreate ==
    /\ lut_pc = "open_create"
    /\ \E outcome \in TxOutcomes :
         LET lut_pda == LutPda(lut_local.clock_slot)
             applied == Landed(outcome) /\ lut_pda \notin DOMAIN lut_tables
         IN  /\ lut_tables' =
                  IF applied
                  THEN [t \in DOMAIN lut_tables \cup {lut_pda} |->
                           IF t = lut_pda
                           THEN [status |-> "active", addresses |-> <<>>]
                           ELSE lut_tables[t]]
                  ELSE lut_tables
             /\ lut_log' = Append(lut_log,
                    LogEntry("create", <<lut_pda>>, <<>>, outcome, applied))
             /\ lut_local' = [lut_local EXCEPT !.lut_pda = lut_pda]
             /\ lut_pc' = IF outcome = "ok" THEN "open_write" ELSE "open_err"
    /\ UNCHANGED <<lut_accounts, lut_calls, lut_slot, lut_registry>>
    /\ UNCHANGED <<batchVars, fileVars, ctlVars, poolVars>>

\* a variant of write_file that opens the file and writes no record
registry_write_nothing(registry, luts) ==
    [exists |-> TRUE, records |-> registry.records]

\* write_file at the level of records: the addresses are appended
registry_write(registry, luts) ==
    [exists |-> TRUE, records |-> registry.records \o luts]

\* open_new, lines 84-88: the new table's address is written to the registry
\* (write_file fails when the file cannot be opened or written), then a sleep
OpenWrite ==
    /\ lut_pc = "open_write"
    /\ \/ /\ lut_registry' = registry_write(lut_registry, <<lut_local.lut_pda>>)
          /\ lut_local' = [lut_local EXCEPT !.bundle = 1]
          /\ lut_pc' = "open_extend"
       \/ /\ UNCHANGED <<lut_registry, lut_local>>
          /\ lut_pc' = "open_err"
    /\ UNCHANGED <<lut_accounts, lut_calls, lut_slot, lut_tables, lut_log>>
    /\ UNCHANGED <<batchVars, fileVars, ctlVars, poolVars>>

\* open_new, lines 89-115: the next bundle of extends is sent; after the last
\* one the table is pushed on lookup_tables and the next chunk begins
OpenExtend ==
    /\ lut_pc = "open_extend"
    /\ \E outcome \in TxOutcomes :
         LET bundles == extend_bundles(OpenChunks[lut_local.chunk],
                                       lut_local.lut_pda)
             bundle == bundles[lut_local.bundle]
             applied == Landed(outcome) /\ ExtendValid(lut_tables, bundle)
         IN  /\ lut_tables' =
                  IF applied THEN ApplyExtends(lut_tables, bundle)
                  ELSE lut_tables
             /\ lut_log' = Append(lut_log,
                    LogEntry("extend", <<lut_local.lut_pda>>, bundle,
                             outcome, applied))
             /\ IF outcome # "ok" \/ ~applied
                THEN /\ lut_pc' = "open_err"
                     /\ lut_local' = lut_local
                ELSE IF lut_local.bundle < Len(bundles)
                THEN /\ lut_pc' = "open_extend"
                     /\ lut_local' = [lut_local EXCEPT !.bundle = @ + 1]
                ELSE /\ lut_local' =
                          [lut_local EXCEPT
                              !.lookup_tables = Append(@, lut_local.lut_pda),
                              !.chunk = @ + 1]
                     /\ lut_pc' = IF lut_local.chunk < Len(OpenChunks)
                                  THEN "open_clock" ELSE "open_ok"
    /\ UNCHANGED <<lut_accounts, lut_calls, lut_slot, lut_registry>>
    /\ UNCHANGED <<batchVars, fileVars, ctlVars, poolVars>>

\* read_file at the level of records
registry_read(registry) ==
    IF registry.exists
    THEN [ok |-> TRUE, luts |-> registry.records]
    ELSE [ok |-> FALSE, luts |-> <<>>]

\* clear_file: the file is created or truncated
registry_clear(registry) == [exists |-> TRUE, records |-> <<>>]

\* close_prior is called (lines 20-22)
CallClosePrior ==
    /\ lut_pc \in LutIdlePcs
    /\ lut_calls < MaxLutCalls
    /\ lut_calls' = lut_calls + 1
    /\ lut_local' = NoLocal
    /\ lut_pc' = "close_read"
    /\ UNCHANGED <<lut_accounts, lut_slot, lut_tables, lut_registry, lut_log>>
    /\ UNCHANGED <<batchVars, fileVars, ctlVars, poolVars>>

\* the chunks the two loops of close_prior run over
CloseChunks == Chunks(lut_local.luts, MAX_ACCOUNTS_PER_TX_CLOSE)

\* close_prior, lines 23-24 and 61-65: the registry is read; when that fails
\* the error is logged and close_prior returns Ok
CloseRead ==
    /\ lut_pc = "close_read"
    /\ LET prior == registry_read(lut_registry)
           chunks == Chunks(prior.luts, MAX_ACCOUNTS_PER_TX_CLOSE)
       IN  IF prior.ok
           THEN /\ lut_local' = [lut_local EXCEPT !.luts = prior.luts,
                                                  !.chunk = 1]
                /\ lut_pc' = IF Len(chunks) = 0 THEN "close_sleep"
                             ELSE "close_deactivate"
           ELSE /\ lut_local' = lut_local
                /\ lut_pc' = "close_ok"
    /\ UNCHANGED <<lut_accounts, lut_calls, lut_slot, lut_tables,
                   lut_registry, lut_log>>
    /\ UNCHANGED <<batchVars, fileVars, ctlVars, poolVars>>

\* the tables the deactivate and the close transaction of one chunk name:
\* deactivate(client, luts) and close(client, luts) are given luts, all the
\* tables read, and not the chunk
deactivate_luts(luts, chunk) == luts

close_luts(luts, chunk) == luts

\* close_prior, lines 26-37: the deactivate transaction of the next chunk; a
\* failure is logged and the loop goes on
CloseDeactivate ==
    /\ lut_pc = "close_deactivate"
    /\ \E outcome \in TxOutcomes :
         LET named == deactivate_luts(lut_local.luts,
                                      CloseChunks[lut_local.chunk])
             applied == Landed(outcome) /\ DeactivateValid(lut_tables, named)
         IN  /\ lut_tables' =
                  IF applied THEN SetStatus(lut_tables, named, "deactivated")
                  ELSE lut_tables
             /\ lut_log' = Append(lut_log,
                    LogEntry("deactivate", named, <<>>, outcome, applied))
    /\ IF lut_local.chunk < Len(CloseChunks)
       THEN /\ lut_local' = [lut_local EXCEPT !.chunk = @ + 1]
            /\ lut_pc' = "close_deactivate"
       ELSE /\ lut_local' = [lut_local EXCEPT !.chunk = 1]
            /\ lut_pc' = "close_sleep"
    /\ UNCHANGED <<lut_accounts, lut_calls, lut_slot, lut_registry>>
    /\ UNCHANGED <<batchVars, fileVars, ctlVars, poolVars>>

\* close_prior, lines 38-44: the sleep of 5 minutes "to allow 500 blocks to
\* pass"; the tables deactivated before it are past the cooldown after it
CloseSleep ==
    /\ lut_pc = "close_sleep"
    /\ lut_tables' =
         [t \in DOMAIN lut_tables |->
             IF lut_tables[t].status = "deactivated"
             THEN [lut_tables[t] EXCEPT !.status = "cooled"]
             ELSE lut_tables[t]]
    /\ lut_slot' = Min(lut_slot + 1, MaxSlot)
    /\ lut_pc' = IF Len(CloseChunks) = 0 THEN "close_clear" ELSE "close_close"
    /\ UNCHANGED <<lut_accounts, lut_calls, lut_registry, lut_local, lut_log>>
    /\ UNCHANGED <<batchVars, fileVars, ctlVars, poolVars>>

\* close_prior, lines 45-57: the close transaction of the next chunk; a
\* failure is logged and the loop goes on
CloseClose ==
    /\ lut_pc = "close_close"
    /\ \E outcome \in TxOutcomes :
         LET named == close_luts(lut_local.luts, CloseChunks[lut_local.chunk])
             applied == Landed(outcome) /\ CloseValid(lut_tables, named)
         IN  /\ lut_tables' =
                  IF applied THEN SetStatus(lut_tables, named, "closed")
                  ELSE lut_tables
             /\ lut_log' = Append(lut_log,
                    LogEntry("close", named, <<>>, outcome, applied))
    /\ IF lut_local.chunk < Len(CloseChunks)
       THEN /\ lut_local' = [lut_local EXCEPT !.chunk = @ + 1]
            /\ lut_pc' = "close_close"
       ELSE /\ lut_local' = lut_local
            /\ lut_pc' = "close_clear"
    /\ UNCHANGED <<lut_accounts, lut_calls, lut_slot, lut_registry>>
    /\ UNCHANGED <<batchVars, fileVars, ctlVars, poolVars>>

\* close_prior, lines 58-59 and 64-65: the registry is cleared, whatever the
\* closes returned; close_prior returns Err only when clear_file fails
CloseClear ==
    /\ lut_pc = "close_clear"
    /\ \/ /\ lut_registry' = registry_clear(lut_registry)
          /\ lut_pc' = "close_ok"
       \/ /\ lut_registry' = lut_registry
          /\ lut_pc' = "close_err"
    /\ UNCHANGED <<lut_accounts, lut_calls, lut_slot, lut_tables, lut_local,
                   lut_log>>
    /\ UNCHANGED <<batchVars, fileVars, ctlVars, poolVars>>

\* the process is ended in the middle of a call: what is on the ledger and in
\* the registry file stays, the local variables are lost
LutProcessEnds ==
    /\ lut_pc \notin LutIdlePcs
    /\ lut_pc' = "ended"
    /\ UNCHANGED <<lut_accounts, lut_calls, lut_slot, lut_tables,
                   lut_registry, lut_local, lut_log>>
    /\ UNCHANGED <<batchVars, fileVars, ctlVars, poolVars>>

\* The numbers of tables the registry holds when close_prior is called: within
\* SizeSlack of none and of one chunk of MAX_ACCOUNTS_PER_TX_CLOSE
RegistrySizes ==
    {r \in 0..(MAX_ACCOUNTS_PER_TX_CLOSE + SizeSlack) :
        \E b \in {0, MAX_ACCOUNTS_PER_TX_CLOSE} :
            r >= b - SizeSlack /\ r <= b + SizeSlack}

\* close_prior is called when earlier calls of open_new have left r tables:
\* each active on the ledger, extended, and written to the registry
CloseStart ==
    /\ lut_pc = "idle"
    /\ lut_accounts = <<>>
    /\ lut_calls = 0
    /\ \E r \in RegistrySizes :
         /\ lut_slot = r + 1
         /\ lut_tables =
              [lut \in {LutPda(k) : k \in 1..r} |->
                  [status |-> "active", addresses |-> <<StakePubkey(lut)>>]]
         /\ lut_registry =
              [exists |-> TRUE, records |-> [k \in 1..r |-> LutPda(k)]]
    /\ lut_local = NoLocal
    /\ lut_log = <<>>

CloseNext ==
    \/ CallClosePrior \/ CloseRead \/ CloseDeactivate \/ CloseSleep
    \/ CloseClose \/ CloseClear
    \/ LutProcessEnds

\* close_prior run again and again, as every restart and every rotation runs
\* it. The calls before the call MaxLutCalls see a ledger that may reject, a
\* clear_file that may fail and a host that may end the process; from that
\* call on the ledger accepts what is valid, clear_file works and the process
\* is left running.
Settled == lut_calls >= MaxLutCalls

\* before the first call: the tables of CloseStart, or no registry file at all
ResumeStart == CloseStart \/ LutIdle

\* close_prior is called (lines 20-22), whatever the last call came to
ResumeCall ==
    /\ lut_pc \in LutIdlePcs
    /\ lut_calls' = Min(lut_calls + 1, MaxLutCalls)
    /\ lut_local' = NoLocal
    /\ lut_pc' = "close_read"
    /\ UNCHANGED <<lut_accounts, lut_slot, lut_tables, lut_registry, lut_log>>
    /\ UNCHANGED <<batchVars, fileVars, ctlVars, poolVars>>

ResumeDeactivate ==
    /\ CloseDeactivate
    /\ Settled => lut_log'[Len(lut_log')].outcome # "err"

ResumeClose ==
    /\ CloseClose
    /\ Settled => lut_log'[Len(lut_log')].outcome # "err"

ResumeClear ==
    /\ CloseClear
    /\ Settled => lut_pc' = "close_ok"

ResumeProcessEnds ==
    /\ ~Settled
    /\ LutProcessEnds

\* the steps of the program; it is the host that ends the process
ResumeSteps ==
    \/ ResumeCall \/ CloseRead \/ ResumeDeactivate \/ CloseSleep
    \/ ResumeClose \/ ResumeClear

ResumeNext == ResumeSteps \/ ResumeProcessEnds

LutNext ==
    \/ CallOpenNew \/ OpenGetClock \/ OpenCreate \/ OpenWrite \/ OpenExtend
    \/ CallClosePrior \/ CloseRead \/ CloseDeactivate \/ CloseSleep
    \/ CloseClose \/ CloseClear
    \/ LutProcessEnds

-----------------------------------------------------------------------------
(* run, and the rebase cycle: get_stake_accounts and rebase_all *)

\* The numbers of stake accounts of the boost: within SizeSlack of none, of
\* one transaction and of one bundle
CtlSizes ==
    {n \in 0..(BUNDLE_SIZE * MAX_ACCOUNTS_PER_TX + SizeSlack) :
        \E b \in {0, MAX_ACCOUNTS_PER_TX, BUNDLE_SIZE * MAX_ACCOUNTS_PER_TX} :
            n >= b - SizeSlack /\ n <= b + SizeSlack}

\* get_boost_stake_accounts: the (pubkey, stake) pairs of the boost, in the
\* order the RPC node happens to return them
RpcOrders == {"ascending", "descending"}

get_boost_stake_accounts(n, order) ==
    [k \in 1..n |->
        LET id == IF order = "ascending" THEN k - 1 ELSE n - k
        IN  [pubkey |-> StakePubkey(id), id |-> id]]

\* a variant of SortById that leaves the accounts in the order of the RPC node
KeepOrder(accounts) == accounts

\* accounts.sort_by(|a, b| a.id.cmp(&b.id))
SortById(accounts) ==
    SortSeq(accounts, LAMBDA a, b : a.id < b.id)

\* a variant of get_stake_accounts that leaves out the account at current_id
get_stake_accounts_after(accounts, checkpoint) ==
    LET sorted == SortById(accounts)
        remaining == SelectSeq(sorted, LAMBDA a : a.id > checkpoint.current_id)
    IN  [k \in DOMAIN remaining |-> remaining[k].pubkey]

\* get_stake_accounts, lines 141-153: the accounts sorted by stake id, those
\* with an id from checkpoint.current_id on, as addresses
get_stake_accounts(accounts, checkpoint) ==
    LET sorted == SortById(accounts)
        remaining == SelectSeq(sorted, LAMBDA a : a.id >= checkpoint.current_id)
    IN  [k \in DOMAIN remaining |-> remaining[k].pubkey]

\* check_for_time, lines 175-185
check_for_time(unix_timestamp, ts) ==
    IF unix_timestamp - ts < CHECKPOINT_INTERVAL
    THEN "ClockStillTicking" ELSE "Ok"

\* rebase_all, lines 209-222: the bundles of the stake accounts
rebase_all_bundles(stake_accounts) ==
    rebase_bundles(rebase_transactions(stake_accounts, MAX_ACCOUNTS_PER_TX),
                   BUNDLE_SIZE)

\* the accounts named by the instructions of a bundle, each with its place
BundleAccounts(bundle) ==
    UNION {{<<t, j, bundle[t][j].account>> : j \in DOMAIN bundle[t]} :
              t \in DOMAIN bundle}

\* the ledger program applying an accepted bundle of rebase transactions: each
\* stake named is rebased, and the cursor moves past the highest id processed
LedgerRebased(rebased, bundle) ==
    LET named == BundleAccounts(bundle)
    IN  [id \in DOMAIN rebased |->
            rebased[id] +
                Cardinality({x \in named : x[3] = StakePubkey(id)})]

LedgerCursor(checkpoint, bundle) ==
    LET ids == {StakeIdOf(x[3]) : x \in BundleAccounts(bundle)}
        highest == CHOOSE id \in ids : \A other \in ids : other <= id
    IN  IF ids = {} THEN checkpoint
        ELSE [checkpoint EXCEPT !.current_id = Max(@, highest + 1)]

\* the ledger program applying the rebase of the default address: the next
\* interval begins, the cursor is back at the first stake
LedgerNextInterval(checkpoint, unix_timestamp) ==
    [ts |-> unix_timestamp, current_id |-> 0]

NoCtlLocal ==
    [checkpoint |-> [ts |-> 0, current_id |-> 0],
     timed |-> FALSE, elapsed |-> 0, time |-> "none",
     stake_accounts |-> <<>>, bundle |-> 0, result |-> "none",
     needs_reset |-> FALSE]

CtlIdle ==
    /\ ctl_pc = "idle"
    /\ ctl_n = 0
    /\ ctl_checkpoint = [ts |-> 0, current_id |-> 0]
    /\ ctl_clock = 0
    /\ ctl_rebased = <<>>
    /\ ctl_local = NoCtlLocal
    /\ ctl_submits = 0
    /\ ctl_interrupted = FALSE
    /\ ctl_log = <<>>

\* The pool is anywhere in an interval: the stakes below the ledger's cursor
\* have been rebased, the others have not
CtlLedger ==
    /\ ctl_n \in CtlSizes
    /\ \E c \in CtlSizes :
         /\ c <= ctl_n
         /\ ctl_checkpoint = [ts |-> 0, current_id |-> c]
         /\ ctl_rebased = [id \in 0..(ctl_n - 1) |-> IF id < c THEN 1 ELSE 0]
    /\ ctl_local = NoCtlLocal
    /\ ctl_submits = 0
    /\ ctl_interrupted = FALSE
    /\ ctl_log = <<>>

(* run, lines 13-22, as it is compiled: the checkpoint loop that follows
   its Ok(()) is commented out *)

\* one call run makes, what it was made with and how it ended
Call(kind, args, outcome) ==
    [kind |-> kind, txs |-> args, outcome |-> outcome]

\* a variant of run_after_fetch that goes on after a read that failed
run_after_fetch_anyway(fetched) == "time"

\* lines 18-19, the ? after get_boost and after get_checkpoint: run goes on
\* when both were read and returns the error otherwise
run_after_fetch(fetched) == IF fetched THEN "time" ELSE "returned"

\* lookup_tables::sync(client, &boost_pda) is given the boost alone: the
\* participants it works against are those the boost has when sync reads them
sync_participants(n) == {StakePubkey(id) : id \in 0..(n - 1)}

RunStart ==
    /\ ctl_pc = "run"
    /\ ctl_clock \in 0..MaxClock
    /\ CtlLedger

\* lines 18-19: get_boost and get_checkpoint; run returns the error of either
RunGetAccounts ==
    /\ ctl_pc = "run"
    /\ \E fetched \in BOOLEAN :
         /\ ctl_local' =
              IF fetched
              THEN [ctl_local EXCEPT !.checkpoint = ctl_checkpoint]
              ELSE [ctl_local EXCEPT !.result = "Err"]
         /\ ctl_log' = Append(ctl_log,
                Call("get_checkpoint", {}, IF fetched THEN "ok" ELSE "err"))
         /\ ctl_pc' = run_after_fetch(fetched)
    /\ UNCHANGED <<ctl_n, ctl_checkpoint, ctl_clock, ctl_rebased,
                   ctl_submits, ctl_interrupted>>
    /\ UNCHANGED <<batchVars, fileVars, lutVars, poolVars>>

\* line 20 and check_for_time: the clock is read (an error of get_clock is an
\* error of check_for_time) and the interval is checked; the result is bound
\* to _time and run goes on to line 21 whatever it is
RunCheckForTime ==
    /\ ctl_pc = "time"
    /\ \/ ctl_local' =
             [ctl_local EXCEPT
                 !.timed = TRUE,
                 !.elapsed = ctl_clock - ctl_local.checkpoint.ts,
                 !.time = check_for_time(ctl_clock, ctl_local.checkpoint.ts)]
       \/ ctl_local' = [ctl_local EXCEPT !.time = "Err"]
    /\ ctl_pc' = "sync"
    /\ UNCHANGED <<ctl_n, ctl_checkpoint, ctl_clock, ctl_rebased,
                   ctl_submits, ctl_interrupted, ctl_log>>
    /\ UNCHANGED <<batchVars, fileVars, lutVars, poolVars>>

\* line 21: lookup_tables::sync, whose error run returns; it submits no
\* rebase
RunSync ==
    /\ ctl_pc = "sync"
    /\ \/ /\ ctl_local' = ctl_local
          /\ ctl_log' = Append(ctl_log,
                 Call("sync", sync_participants(ctl_n), "ok"))
          /\ ctl_pc' = "return"
       \/ /\ ctl_local' = [ctl_local EXCEPT !.result = "Err"]
          /\ ctl_log' = Append(ctl_log,
                 Call("sync", sync_participants(ctl_n), "err"))
          /\ ctl_pc' = "returned"
    /\ UNCHANGED <<ctl_n, ctl_checkpoint, ctl_clock, ctl_rebased,
                   ctl_submits, ctl_interrupted>>
    /\ UNCHANGED <<batchVars, fileVars, lutVars, poolVars>>

\* line 22: Ok(())
RunReturn ==
    /\ ctl_pc = "return"
    /\ ctl_local' = [ctl_local EXCEPT !.result = "Ok"]
    /\ ctl_pc' = "returned"
    /\ UNCHANGED <<ctl_n, ctl_checkpoint, ctl_clock, ctl_rebased,
                   ctl_submits, ctl_interrupted, ctl_log>>
    /\ UNCHANGED <<batchVars, fileVars, lutVars, poolVars>>

RunNext ==
    \/ RunGetAccounts \/ RunCheckForTime \/ RunSync \/ RunReturn

(* The rebase cycle: the checkpoint is fetched, get_stake_accounts gives the
   accounts that remain, rebase_all submits them; a cycle that failed or was
   cut short by the end of the process is run again *)

CycleStart ==
    /\ ctl_pc = "cycle"
    /\ ctl_clock = CHECKPOINT_INTERVAL
    /\ CtlLedger

\* client.rpc.get_checkpoint
CycleGetCheckpoint ==
    /\ ctl_pc = "cycle"
    /\ \/ /\ ctl_local' = [ctl_local EXCEPT !.checkpoint = ctl_checkpoint]
          /\ ctl_pc' = "stakes"
       \/ /\ ctl_local' = [ctl_local EXCEPT !.result = "Err"]
          /\ ctl_pc' = "failed"
    /\ UNCHANGED <<ctl_n, ctl_checkpoint, ctl_clock, ctl_rebased,
                   ctl_submits, ctl_interrupted, ctl_log>>
    /\ UNCHANGED <<batchVars, fileVars, lutVars, poolVars>>

\* get_stake_accounts, lines 131-165
CycleGetStakeAccounts ==
    /\ ctl_pc = "stakes"
    /\ \/ \E order \in RpcOrders :
            /\ ctl_local' =
                 [ctl_local EXCEPT
                     !.stake_accounts =
                         get_stake_accounts(
                             get_boost_stake_accounts(ctl_n, order),
                             ctl_local.checkpoint),
                     !.bundle = 1]
            /\ ctl_pc' = "rebase"
       \/ /\ ctl_local' = [ctl_local EXCEPT !.result = "Err"]
          /\ ctl_pc' = "failed"
    /\ UNCHANGED <<ctl_n, ctl_checkpoint, ctl_clock, ctl_rebased,
                   ctl_submits, ctl_interrupted, ctl_log>>
    /\ UNCHANGED <<batchVars, fileVars, lutVars, poolVars>>

\* one submission of rebase_all: a transaction (send_transaction) or a bundle
\* of transactions (send_jito_bundle_with_luts), and how it ended
Submission(kind, txs, outcome) ==
    [kind |-> kind, txs |-> txs, outcome |-> outcome]

\* a variant of rebase_default_transaction with the instruction pushed twice
rebase_default_twice == <<RebaseIx(DefaultPubkey), RebaseIx(DefaultPubkey)>>

\* rebase_all, line 201: the transaction of one rebase of Pubkey::default()
rebase_default_transaction == <<RebaseIx(DefaultPubkey)>>

\* a variant of rebase_all_after that logs a failed submission and goes on
rebase_all_logging(outcome, sent, total) ==
    IF sent < total THEN "rebase" ELSE "complete"

\* rebase_all, lines 224-231: the ? after send_jito_bundle_with_luts returns
\* the first error; after the last bundle rebase_all returns Ok(())
rebase_all_after(outcome, sent, total) ==
    IF outcome # "ok" THEN "failed"
    ELSE IF sent < total THEN "rebase" ELSE "complete"

\* rebase_all, lines 197-207: no stake account is left, one transaction with
\* the rebase of the default address is sent
CycleRebaseDefault ==
    /\ ctl_pc = "rebase"
    /\ Len(ctl_local.stake_accounts) = 0
    /\ \E outcome \in TxOutcomes :
         /\ IF Landed(outcome)
            THEN /\ ctl_checkpoint' =
                      LedgerNextInterval(ctl_checkpoint, ctl_clock)
                 /\ ctl_rebased' = [id \in DOMAIN ctl_rebased |-> 0]
                 /\ ctl_interrupted' = FALSE
            ELSE UNCHANGED <<ctl_checkpoint, ctl_rebased, ctl_interrupted>>
         /\ IF outcome = "ok"
            THEN /\ ctl_pc' = "complete"
                 /\ ctl_local' = [ctl_local EXCEPT !.result = "Ok"]
            ELSE /\ ctl_pc' = "failed"
                 /\ ctl_local' = [ctl_local EXCEPT !.result = "Err"]
         /\ ctl_log' = Append(ctl_log,
                Submission("transaction", <<rebase_default_transaction>>,
                           outcome))
    /\ ctl_submits' = ctl_submits + 1
    /\ UNCHANGED <<ctl_n, ctl_clock>>
    /\ UNCHANGED <<batchVars, fileVars, lutVars, poolVars>>

\* rebase_all, lines 209-231: the next bundle is sent; the first error ends
\* rebase_all
CycleRebaseBundle ==
    /\ ctl_pc = "rebase"
    /\ Len(ctl_local.stake_accounts) # 0
    /\ \E outcome \in TxOutcomes :
         LET bundles == rebase_all_bundles(ctl_local.stake_accounts)
             bundle == bundles[ctl_local.bundle]
         IN  /\ IF Landed(outcome)
                THEN /\ ctl_checkpoint' = LedgerCursor(ctl_checkpoint, bundle)
                     /\ ctl_rebased' = LedgerRebased(ctl_rebased, bundle)
                ELSE UNCHANGED <<ctl_checkpoint, ctl_rebased>>
             /\ ctl_pc' =
                  rebase_all_after(outcome, ctl_local.bundle, Len(bundles))
             /\ ctl_local' =
                  [ctl_local EXCEPT
                      !.bundle = IF ctl_pc' = "rebase" THEN @ + 1 ELSE @,
                      !.result = IF ctl_pc' = "failed" THEN "Err"
                                 ELSE IF ctl_pc' = "complete" THEN "Ok"
                                 ELSE @]
             /\ ctl_log' = Append(ctl_log,
                    Submission("bundle", bundle, outcome))
    /\ ctl_submits' = ctl_submits + 1
    /\ UNCHANGED <<ctl_n, ctl_clock, ctl_interrupted>>
    /\ UNCHANGED <<batchVars, fileVars, lutVars, poolVars>>

\* the process is ended: the ledger stays as it is, the local state is lost
CycleProcessEnds ==
    /\ ctl_pc \in {"stakes", "rebase", "failed", "complete"}
    /\ ctl_pc' = "ended"
    /\ ctl_local' = NoCtlLocal
    /\ ctl_submits' = 0
    /\ ctl_interrupted' =
         (\/ ctl_interrupted
          \/ ctl_pc \in {"rebase", "failed"} /\ ctl_submits > 0)
    /\ ctl_log' = <<>>
    /\ UNCHANGED <<ctl_n, ctl_checkpoint, ctl_clock, ctl_rebased>>
    /\ UNCHANGED <<batchVars, fileVars, lutVars, poolVars>>

\* the cycle is run again, from what the ledger holds
CycleRerun ==
    /\ ctl_pc \in {"failed", "complete", "ended"}
    /\ ctl_pc' = "cycle"
    /\ ctl_local' = NoCtlLocal
    /\ ctl_submits' = 0
    /\ ctl_log' = <<>>
    /\ UNCHANGED <<ctl_n, ctl_checkpoint, ctl_clock, ctl_rebased,
                   ctl_interrupted>>
    /\ UNCHANGED <<batchVars, fileVars, lutVars, poolVars>>

CycleNext ==
    \/ CycleGetCheckpoint \/ CycleGetStakeAccounts
    \/ CycleRebaseDefault \/ CycleRebaseBundle
    \/ CycleProcessEnds \/ CycleRerun

(* The checkpoint loop around the cycle, as the specification describes the
   controller (AwaitInterval, Reconcile, Submit, Rotate, Backoff) and as the
   loop that is commented out in run (checkpoint.rs 36-109) had it: this
   revision compiles none of it. get_stake_accounts and rebase_all are the
   compiled functions, the actions of the cycle above *)

LoopStart ==
    /\ ctl_pc = "top"
    /\ ctl_clock = CHECKPOINT_INTERVAL - 1
    /\ CtlLedger

\* the rotation of the lookup tables is triggered: reset(..), and how it ended
Rotation(outcome) == Submission("rotate", <<>>, outcome)

\* a pass begins; a rotation still owed from the pass before is made first,
\* and when it fails the loop backs off
LoopTop ==
    /\ ctl_pc = "top"
    /\ ctl_submits' = 0
    /\ IF ctl_local.needs_reset
       THEN \E ok \in BOOLEAN :
              /\ ctl_log' = <<Rotation(IF ok THEN "ok" ELSE "err")>>
              /\ ctl_local' =
                   [NoCtlLocal EXCEPT !.checkpoint = ctl_local.checkpoint,
                                      !.needs_reset = ~ok]
              /\ ctl_pc' = IF ok THEN "fetch" ELSE "failed"
       ELSE /\ ctl_log' = <<>>
            /\ ctl_local' =
                 [NoCtlLocal EXCEPT !.checkpoint = ctl_local.checkpoint]
            /\ ctl_pc' = "fetch"
    /\ UNCHANGED <<ctl_n, ctl_checkpoint, ctl_clock, ctl_rebased,
                   ctl_interrupted>>
    /\ UNCHANGED <<batchVars, fileVars, lutVars, poolVars>>

\* AwaitInterval: the checkpoint is fetched again
LoopFetchCheckpoint ==
    /\ ctl_pc = "fetch"
    /\ \/ /\ ctl_local' = [ctl_local EXCEPT !.checkpoint = ctl_checkpoint]
          /\ ctl_pc' = "time"
       \/ /\ ctl_local' = [ctl_local EXCEPT !.result = "Err"]
          /\ ctl_pc' = "failed"
    /\ UNCHANGED <<ctl_n, ctl_checkpoint, ctl_clock, ctl_rebased,
                   ctl_submits, ctl_interrupted, ctl_log>>
    /\ UNCHANGED <<batchVars, fileVars, lutVars, poolVars>>

\* AwaitInterval: check_for_time decides between Reconcile and Backoff
LoopCheckForTime ==
    /\ ctl_pc = "time"
    /\ \/ /\ ctl_local' =
               [ctl_local EXCEPT
                   !.timed = TRUE,
                   !.elapsed = ctl_clock - ctl_local.checkpoint.ts,
                   !.time = check_for_time(ctl_clock,
                                           ctl_local.checkpoint.ts)]
          /\ ctl_pc' =
               IF check_for_time(ctl_clock, ctl_local.checkpoint.ts) = "Ok"
               THEN "stakes" ELSE "failed"
       \/ /\ ctl_local' = [ctl_local EXCEPT !.time = "Err"]
          /\ ctl_pc' = "failed"
    /\ UNCHANGED <<ctl_n, ctl_checkpoint, ctl_clock, ctl_rebased,
                   ctl_submits, ctl_interrupted, ctl_log>>
    /\ UNCHANGED <<batchVars, fileVars, lutVars, poolVars>>

\* Rotate: rebase_all has returned Ok; needs_reset is set and the rotation is
\* triggered; when it fails it stays owed and the loop backs off
LoopRotate ==
    /\ ctl_pc = "complete"
    /\ \E ok \in BOOLEAN :
         /\ ctl_log' = Append(ctl_log, Rotation(IF ok THEN "ok" ELSE "err"))
         /\ ctl_local' = [ctl_local EXCEPT !.needs_reset = ~ok]
         /\ ctl_pc' = IF ok THEN "top" ELSE "failed"
    /\ UNCHANGED <<ctl_n, ctl_checkpoint, ctl_clock, ctl_rebased,
                   ctl_submits, ctl_interrupted>>
    /\ UNCHANGED <<batchVars, fileVars, lutVars, poolVars>>

\* Backoff: the error is logged, the loop sleeps and starts its next pass
LoopBackoff ==
    /\ ctl_pc = "failed"
    /\ ctl_clock' = Min(ctl_clock + 1, MaxClock)
    /\ ctl_pc' = "top"
    /\ UNCHANGED <<ctl_n, ctl_checkpoint, ctl_rebased, ctl_local,
                   ctl_submits, ctl_interrupted, ctl_log>>
    /\ UNCHANGED <<batchVars, fileVars, lutVars, poolVars>>

LoopNext ==
    \/ LoopTop \/ LoopFetchCheckpoint \/ LoopCheckForTime
    \/ CycleGetStakeAccounts \/ CycleRebaseDefault \/ CycleRebaseBundle
    \/ LoopRotate \/ LoopBackoff

-----------------------------------------------------------------------------
(* The registry files of several pools *)

\* The pools: the boost addresses as clear_file, write_file and read_file
\* format them with {} into the path; the second begins with the first
PoolBoosts == {<<"A">>, <<"A", "B">>}

\* The values LUTS_PATH may have in the environment of the process
LutsPaths == {<<"l">>, <<"l", "-", "A">>}

\* The tables a pool's open_new writes
PoolLuts == {LutPda(1), LutPda(2)}

\* a variant of registry_path that leaves the boost out of the path
registry_path_shared(luts_path, boost) == luts_path

\* lines 149-150, 158-159, 176-177: format!("{}-{}", luts_path, boost)
registry_path(luts_path, boost) == luts_path \o <<"-">> \o boost

\* the file at a path, if there is one
FileAt(files, path) ==
    IF path \in DOMAIN files THEN files[path]
    ELSE [exists |-> FALSE, records |-> <<>>]

\* the file system with the file at a path created or replaced
PutFile(files, path, file) ==
    [p \in DOMAIN files \cup {path} |-> IF p = path THEN file ELSE files[p]]

PoolIdle ==
    /\ pool_luts_path = <<>>
    /\ pool_files = <<>>
    /\ pool_op = [op |-> "none", boost |-> <<>>, ok |-> TRUE, luts |-> <<>>]

PoolStart ==
    /\ pool_luts_path \in LutsPaths
    /\ pool_files = <<>>
    /\ pool_op = [op |-> "none", boost |-> <<>>, ok |-> TRUE, luts |-> <<>>]

\* write_file(&[lut], boost), lines 156-171, as open_new calls it
PoolWrite ==
    \E boost \in PoolBoosts, lut \in PoolLuts :
        LET path == registry_path(pool_luts_path, boost)
        IN  /\ Len(FileAt(pool_files, path).records) < MaxAppends
            /\ pool_files' =
                 PutFile(pool_files, path,
                         registry_write(FileAt(pool_files, path), <<lut>>))
            /\ pool_op' = [op |-> "write_file", boost |-> boost,
                           ok |-> TRUE, luts |-> <<lut>>]
            /\ UNCHANGED pool_luts_path
            /\ UNCHANGED <<batchVars, fileVars, lutVars, ctlVars>>

\* read_file(boost), lines 174-207
PoolRead ==
    \E boost \in PoolBoosts :
        LET path == registry_path(pool_luts_path, boost)
            prior == registry_read(FileAt(pool_files, path))
        IN  /\ pool_op' = [op |-> "read_file", boost |-> boost,
                           ok |-> prior.ok, luts |-> prior.luts]
            /\ UNCHANGED <<pool_luts_path, pool_files>>
            /\ UNCHANGED <<batchVars, fileVars, lutVars, ctlVars>>

\* clear_file(boost), lines 147-154
PoolClear ==
    \E boost \in PoolBoosts :
        LET path == registry_path(pool_luts_path, boost)
        IN  /\ pool_files' =
                 PutFile(pool_files, path,
                         registry_clear(FileAt(pool_files, path)))
            /\ pool_op' = [op |-> "clear_file", boost |-> boost,
                           ok |-> TRUE, luts |-> <<>>]
            /\ UNCHANGED pool_luts_path
            /\ UNCHANGED <<batchVars, fileVars, lutVars, ctlVars>>

PoolNext == PoolWrite \/ PoolRead \/ PoolClear

-----------------------------------------------------------------------------
(* The specifications *)

BatchInit == BatchStart /\ FileIdle /\ LutIdle /\ CtlIdle /\ PoolIdle

BatchNext == BatchPartition \/ BatchBundle

SpecBatch == BatchInit /\ [][BatchNext]_vars

FileInit == FileIdle /\ BatchIdle /\ LutIdle /\ CtlIdle /\ PoolIdle

SpecFile == FileInit /\ [][FileNext]_vars

LutInit == LutStart /\ BatchIdle /\ FileIdle /\ CtlIdle /\ PoolIdle

SpecLut == LutInit /\ [][LutNext]_vars

CloseInit == CloseStart /\ BatchIdle /\ FileIdle /\ CtlIdle /\ PoolIdle

SpecClose == CloseInit /\ [][CloseNext]_vars

ResumeInit == ResumeStart /\ BatchIdle /\ FileIdle /\ CtlIdle /\ PoolIdle

\* close_prior awaits and goes on, and is called again after it has returned
\* or the process was ended: every step of the program is taken in the end
SpecResume == ResumeInit /\ [][ResumeNext]_vars /\ WF_vars(ResumeSteps)

PoolInit == PoolStart /\ BatchIdle /\ FileIdle /\ LutIdle /\ CtlIdle

SpecPools == PoolInit /\ [][PoolNext]_vars

RunInit == RunStart /\ BatchIdle /\ FileIdle /\ LutIdle /\ PoolIdle

SpecRun == RunInit /\ [][RunNext]_vars

CycleInit == CycleStart /\ BatchIdle /\ FileIdle /\ LutIdle /\ PoolIdle

SpecCycle == CycleInit /\ [][CycleNext]_vars

LoopInit == LoopStart /\ BatchIdle /\ FileIdle /\ LutIdle /\ PoolIdle

SpecLoop == LoopInit /\ [][LoopNext]_vars

-----------------------------------------------------------------------------
(* The batcher's properties *)

\* C5: the batcher partitions the remaining set S into exactly ceil(|S|/k)
\* groups of at most k accounts each; every account of S is in exactly one
\* group, and the groups in emission order, one after the other, are S in its
\* ascending-id order.
C5_Partition ==
    batch_pc \in {"chunked", "bundled"} =>
        LET S == batch_accounts
            k == batch_k
            g == batch_txs
        IN  /\ (Len(g) - 1) * k < Len(S) \/ (Len(g) = 0 /\ Len(S) = 0)
            /\ Len(S) <= Len(g) * k
            /\ \A i \in DOMAIN g : Len(g[i]) >= 1 /\ Len(g[i]) <= k
            \* the p-th account of S is the next slot of the concatenation
            /\ \A p \in DOMAIN S :
                  LET i == ((p - 1) \div k) + 1
                      j == ((p - 1) % k) + 1
                  IN  /\ i \in DOMAIN g
                      /\ j \in DOMAIN g[i]
                      /\ g[i][j] = RebaseIx(S[p])
            \* and the groups hold nothing else
            /\ \A i \in DOMAIN g : \A j \in DOMAIN g[i] :
                  /\ (i - 1) * k + j \in DOMAIN S
                  /\ i < Len(g) => Len(g[i]) = k

C5_Witness ==
    /\ batch_pc = "chunked"
    /\ batch_k = MAX_ACCOUNTS_PER_TX
    /\ Len(batch_txs) >= 3
    /\ Len(batch_txs[Len(batch_txs)]) < batch_k

\* C6: n chunk transactions go into ceil(n/b) bundles in order, all full but
\* possibly the last, each transaction in exactly one bundle; 300 accounts with
\* chunk size 10 and bundle size 4 give 30 chunks and 8 bundles (7 of 4 and 1
\* of 2), and the id ranges of successive chunks are contiguous, without
\* overlap or gap.
C6_Bundles ==
    batch_pc = "bundled" =>
        LET S == batch_accounts
            t == batch_txs
            b == batch_b
            B == batch_bundles
        IN  /\ (Len(B) - 1) * b < Len(t) \/ (Len(B) = 0 /\ Len(t) = 0)
            /\ Len(t) <= Len(B) * b
            /\ \A i \in DOMAIN B :
                  /\ Len(B[i]) >= 1
                  /\ Len(B[i]) <= b
                  /\ i < Len(B) => Len(B[i]) = b
                  /\ \A j \in DOMAIN B[i] : (i - 1) * b + j \in DOMAIN t
            /\ \A q \in DOMAIN t :
                  LET i == ((q - 1) \div b) + 1
                      j == ((q - 1) % b) + 1
                  IN  i \in DOMAIN B /\ j \in DOMAIN B[i] /\ B[i][j] = t[q]
            /\ (Len(S) = 300 /\ batch_k = 10 /\ b = 4) =>
                  /\ Len(t) = 30
                  /\ Len(B) = 8
                  /\ \A i \in 1..7 : Len(B[i]) = 4
                  /\ Len(B[8]) = 2
            \* the id ranges: the first chunk starts at the first id, each
            \* chunk rises by one and the next chunk goes on where it stopped
            /\ Len(t) > 0 =>
                  /\ t[1][1].account = S[1]
                  /\ t[Len(t)][Len(t[Len(t)])].account = S[Len(S)]
            /\ \A q \in DOMAIN t :
                  /\ \A j \in 1..(Len(t[q]) - 1) :
                        StakeIdOf(t[q][j + 1].account) =
                            StakeIdOf(t[q][j].account) + 1
                  /\ q < Len(t) =>
                        StakeIdOf(t[q + 1][1].account) =
                            StakeIdOf(t[q][Len(t[q])].account) + 1

C6_Witness ==
    /\ batch_pc = "bundled"
    /\ Len(batch_accounts) = 300
    /\ batch_k = 10
    /\ batch_b = 4
    /\ Len(batch_bundles) = 8
    /\ Len(batch_bundles[8]) = 2

-----------------------------------------------------------------------------
(* The registry file's properties *)

\* the addresses of the complete records among the segments, in file order
RECURSIVE RecordsOf(_)
RecordsOf(segments) ==
    IF Len(segments) = 0 THEN <<>>
    ELSE (IF segments[1].kind = "record" THEN <<segments[1].bytes>> ELSE <<>>)
             \o RecordsOf(Tail(segments))

HoldsNewline(bytes) == \E i \in DOMAIN bytes : bytes[i] = NEWLINE

\* C7: registry round trip: N addresses of any byte values, the delimiter byte
\* 0x0A among them, written with write_file to an empty registry and read with
\* read_file, come back as the same N addresses in write order.
C7_RoundTrip ==
    (/\ file_read.ok
     /\ \A i \in DOMAIN file_segments : file_segments[i].kind = "record")
        => file_read.luts = RecordsOf(file_segments)

\* C8: read_file does not abort on a malformed record: a record that is not
\* 32 bytes long is skipped, and every well-formed record before and after it
\* is returned, in file order. Stated for the files none of whose addresses
\* holds the delimiter byte, which C7 is about.
C8_SkipMalformed ==
    (/\ file_read # NoRead
     /\ file_exists
     /\ \A i \in DOMAIN file_segments :
            file_segments[i].kind # "junk"
                => ~HoldsNewline(file_segments[i].bytes))
        => /\ file_read.ok
           /\ file_read.luts = RecordsOf(file_segments)

-----------------------------------------------------------------------------
(* The lookup-table manager's properties *)

\* the addresses a table holds on the ledger
AddressSet(lut) ==
    IF lut \in DOMAIN lut_tables /\ lut_tables[lut].status # "closed"
    THEN {lut_tables[lut].addresses[i] : i \in DOMAIN lut_tables[lut].addresses}
    ELSE {}

\* C2: in close_prior the registry is cleared only after the closes were
\* accepted, and only the tables whose close was confirmed are removed: a table
\* whose close failed is still in the registry when close_prior has returned.
C2_ClearOnlyClosed ==
    lut_pc = "close_ok" =>
        \A i \in DOMAIN lut_local.luts :
            StatusOf(lut_tables, lut_local.luts[i]) # "closed"
                => InRegistry(lut_registry, lut_local.luts[i])

\* C3: no close is submitted for a table before the table was deactivated and
\* its cooldown has elapsed; none for a table whose deactivate failed.
C3_CloseAfterCooldown ==
    \A k \in DOMAIN lut_log :
        lut_log[k].op = "close" =>
            \A i \in DOMAIN lut_log[k].luts : lut_log[k].status[i] = "cooled"

\* C4: in open_new a new table's address is in the pool's registry before
\* any extend naming the table is submitted, in every execution, the ones
\* that fail or are ended part-way among them.
C4_RegisteredBeforeExtend ==
    \A k \in DOMAIN lut_log :
        lut_log[k].op = "extend" =>
            /\ \A i \in DOMAIN lut_log[k].luts : lut_log[k].registered[i]
            /\ \A j \in DOMAIN lut_log[k].ixs :
                  lut_log[k].ixs[j].lut = lut_log[k].luts[1]

C4_Witness ==
    /\ lut_pc = "open_err"
    /\ \E k \in DOMAIN lut_log :
          /\ lut_log[k].op = "extend"
          /\ lut_log[k].applied
          /\ lut_log[k].luts[1] = LutPda(2)
    /\ lut_log[Len(lut_log)].op = "extend"
    /\ lut_log[Len(lut_log)].outcome = "err"

\* C9: when opening the tables of a pool has completed, every table the
\* registry refers to holds at most 256 addresses, and no address is in two
\* tables of the pool.
C9_TablesDisjoint ==
    lut_pc = "open_ok" =>
        /\ \A i \in DOMAIN lut_registry.records :
              Cardinality(AddressSet(lut_registry.records[i]))
                  <= MAX_ACCOUNTS_PER_LUT
        /\ \A i, j \in DOMAIN lut_registry.records :
              i # j =>
                  AddressSet(lut_registry.records[i])
                      \cap AddressSet(lut_registry.records[j]) = {}

-----------------------------------------------------------------------------
(* C1 *)

\* C1: however often the cycle is cut short by a failure or by the end of
\* the process (between two bundle submissions, or after a bundle whose
\* confirmation was lost) and run again from the ledger's checkpoint, no stake
\* is rebased twice in an interval and none below the cursor is skipped; and
\* when rebase_all returns Ok for the remaining accounts, the cursor is the
\* highest stake id plus one and every stake was rebased exactly once.
C1_ExactlyOnce ==
    /\ \A id \in DOMAIN ctl_rebased :
         ctl_rebased[id] = IF id < ctl_checkpoint.current_id THEN 1 ELSE 0
    /\ ctl_pc = "complete" /\ Len(ctl_local.stake_accounts) > 0 =>
         LET ids == DOMAIN ctl_rebased
             highest == CHOOSE id \in ids : \A other \in ids : other <= id
         IN  /\ ctl_checkpoint.current_id = highest + 1
             /\ \A id \in ids : ctl_rebased[id] = 1

\* C1 witness: more stakes than one bundle holds; the process was ended after
\* a submission, the cycle run again from a cursor in the middle completes
C1_Witness ==
    /\ ctl_pc = "complete"
    /\ ctl_interrupted
    /\ ctl_n > BUNDLE_SIZE * MAX_ACCOUNTS_PER_TX
    /\ ctl_local.checkpoint.current_id > 0
    /\ ctl_local.checkpoint.current_id < ctl_n
    /\ Len(ctl_local.stake_accounts) > 0

-----------------------------------------------------------------------------
(* C10 *)

\* C10: once run has computed elapsed = clock.unix_timestamp - checkpoint.ts,
\* it goes on (to the lookup tables, to its Ok) only if elapsed is at least
\* CHECKPOINT_INTERVAL, and then check_for_time has said Ok; with a smaller
\* elapsed it does not go on and submits no rebase.
C10_IntervalGate ==
    ctl_local.timed =>
        IF ctl_local.elapsed < CHECKPOINT_INTERVAL
        THEN /\ ctl_pc \notin {"sync", "return"}
             /\ ctl_local.result # "Ok"
             /\ ctl_submits = 0
        ELSE ctl_local.time = "Ok"

-----------------------------------------------------------------------------
(* C11, C16, C17: get_stake_accounts and rebase_all *)

\* get_stake_accounts has returned Ok in this pass
StakesFetched == ctl_local.bundle >= 1

\* C11: when no stake account remains, rebase_all submits exactly one
\* transaction, not a bundle, holding exactly one rebase instruction, which
\* names the default address; no lookup table is created, extended,
\* deactivated or closed, and open_new has no chunk to create a table for.
C11_DefaultRebase ==
    StakesFetched /\ Len(ctl_local.stake_accounts) = 0 =>
        /\ \/ ctl_pc = "rebase" /\ Len(ctl_log) = 0
           \/ /\ ctl_pc \in {"complete", "failed"}
              /\ Len(ctl_log) = 1
              /\ ctl_log[1].kind = "transaction"
              /\ Len(ctl_log[1].txs) = 1
              /\ Len(ctl_log[1].txs[1]) = 1
              /\ ctl_log[1].txs[1][1] = RebaseIx(DefaultPubkey)
        /\ Len(Chunks(ctl_local.stake_accounts, MAX_ACCOUNTS_PER_LUT)) = 0
        /\ Len(lut_log) = 0
        /\ DOMAIN lut_tables = {}

\* C11 witness: a boost without stakers, the default rebase was accepted
C11_Witness ==
    /\ ctl_n = 0
    /\ ctl_pc = "complete"
    /\ StakesFetched
    /\ Len(ctl_log) = 1
    /\ ctl_log[1].outcome = "ok"
    /\ ctl_checkpoint.ts = ctl_clock

\* C16: what get_stake_accounts returned holds only addresses of stakes with
\* an id from checkpoint.current_id on, each of them exactly once, in
\* ascending order of the id, whatever the order the RPC node gave them in.
C16_Remaining ==
    StakesFetched =>
        LET remaining == ctl_local.stake_accounts
            current_id == ctl_local.checkpoint.current_id
        IN  /\ \A k \in DOMAIN remaining :
                  /\ StakeIdOf(remaining[k]) >= current_id
                  /\ StakeIdOf(remaining[k]) < ctl_n
            /\ \A id \in current_id..(ctl_n - 1) :
                  Cardinality({k \in DOMAIN remaining :
                                  remaining[k] = StakePubkey(id)}) = 1
            /\ \A k \in 1..(Len(remaining) - 1) :
                  StakeIdOf(remaining[k]) < StakeIdOf(remaining[k + 1])

\* C16 witness: some stakes are below the cursor and some are not
C16_Witness ==
    /\ ctl_pc = "rebase"
    /\ StakesFetched
    /\ ctl_local.checkpoint.current_id > 1
    /\ Len(ctl_local.stake_accounts) > 1
    /\ Len(ctl_local.stake_accounts) = ctl_n - ctl_local.checkpoint.current_id

\* the accounts the transactions of a bundle name, in order
AccountsNamed(txs) ==
    [i \in 1..(MAX_ACCOUNTS_PER_TX * (Len(txs) - 1) + Len(txs[Len(txs)])) |->
        txs[((i - 1) \div MAX_ACCOUNTS_PER_TX) + 1]
           [((i - 1) % MAX_ACCOUNTS_PER_TX) + 1].account]

\* C17: the k-th submission of rebase_all is the k-th bundle of the stake
\* accounts in their order; no bundle is submitted after one that failed; and
\* rebase_all returns Ok only when every bundle was submitted and accepted.
C17_Prefix ==
    StakesFetched /\ Len(ctl_local.stake_accounts) > 0 =>
        LET remaining == ctl_local.stake_accounts
            per_bundle == BUNDLE_SIZE * MAX_ACCOUNTS_PER_TX
        IN  /\ \A k \in DOMAIN ctl_log :
                  /\ ctl_log[k].kind = "bundle"
                  /\ Len(ctl_log[k].txs) \in 1..BUNDLE_SIZE
                  /\ \A t \in 1..(Len(ctl_log[k].txs) - 1) :
                        Len(ctl_log[k].txs[t]) = MAX_ACCOUNTS_PER_TX
                  /\ AccountsNamed(ctl_log[k].txs) =
                        SubSeq(remaining, (k - 1) * per_bundle + 1,
                               Min(k * per_bundle, Len(remaining)))
                  /\ k < Len(ctl_log) => ctl_log[k].outcome = "ok"
            /\ ctl_local.result = "Ok" <=> ctl_pc = "complete"
            /\ ctl_pc = "complete" =>
                  /\ Len(ctl_log) = CeilDiv(Len(remaining), per_bundle)
                  /\ \A k \in DOMAIN ctl_log : ctl_log[k].outcome = "ok"
            /\ ctl_pc = "failed" =>
                  ctl_log[Len(ctl_log)].outcome # "ok"

\* C17 witness: the first of two bundles failed, the second was not submitted
C17_Witness ==
    /\ ctl_pc = "failed"
    /\ Len(ctl_local.stake_accounts) > BUNDLE_SIZE * MAX_ACCOUNTS_PER_TX
    /\ Len(ctl_log) = 1
    /\ ctl_log[1].outcome = "err"

-----------------------------------------------------------------------------
(* C13 *)

\* C13: run, the controller of a pool, never returns: not with Ok, and not
\* with the error of a read of the checkpoint or the clock that failed.
C13_NeverReturns ==
    /\ ctl_pc # "returned"
    /\ ctl_local.result = "none"

-----------------------------------------------------------------------------
(* C12, C19, C20: open_new and close_prior *)

\* the submissions of the call that is running or has just returned
ThisCall(op) ==
    SelectSeq(lut_log, LAMBDA entry : entry.call = lut_calls /\ entry.op = op)

\* the number of extend bundles open_new has to send for all its chunks
ExtendBundlesDue ==
    LET chunks == Chunks(lut_accounts, MAX_ACCOUNTS_PER_LUT)
        due == [c \in DOMAIN chunks |->
                   CeilDiv(CeilDiv(Len(chunks[c]), EXTEND_CHUNK),
                           EXTEND_BUNDLE)]
        RECURSIVE Sum(_)
        Sum(c) == IF c = 0 THEN 0 ELSE due[c] + Sum(c - 1)
    IN  Sum(Len(chunks))

\* C12: a failed extend does not end open_new, every extend bundle of every
\* chunk is still attempted; and close_prior does not report plain success
\* when a close of this call has failed.
C12_ContinueAndCount ==
    /\ lut_pc = "open_err" /\ Len(ThisCall("extend")) > 0 =>
          Len(ThisCall("extend")) = ExtendBundlesDue
    /\ lut_pc = "close_ok" =>
          \A k \in DOMAIN ThisCall("close") :
              ThisCall("close")[k].outcome = "ok"

\* the instructions of a sequence of submissions, in order
RECURSIVE IxsOf(_)
IxsOf(entries) ==
    IF Len(entries) = 0 THEN <<>>
    ELSE entries[1].ixs \o IxsOf(Tail(entries))

\* the addresses a sequence of extend instructions carries, in order
RECURSIVE AddressesOf(_)
AddressesOf(ixs) ==
    IF Len(ixs) = 0 THEN <<>>
    ELSE ixs[1].accounts \o AddressesOf(Tail(ixs))

\* C19: when open_new has returned Ok it has created ceil(n / 256) tables;
\* the extends it sent carry the stake accounts in their order, each address
\* once, at most 26 per instruction and 5 instructions per bundle, each to
\* the table of its chunk of 256; every bundle was accepted, so each table
\* holds its chunk.
C19_OpenNewOk ==
    lut_pc = "open_ok" =>
        LET creates == ThisCall("create")
            extends == ThisCall("extend")
            ixs == IxsOf(extends)
            chunks == Chunks(lut_accounts, MAX_ACCOUNTS_PER_LUT)
        IN  /\ Len(creates) = CeilDiv(Len(lut_accounts), MAX_ACCOUNTS_PER_LUT)
            /\ Len(lut_local.lookup_tables) = Len(creates)
            /\ \A c \in DOMAIN creates :
                  /\ creates[c].luts = <<lut_local.lookup_tables[c]>>
                  /\ \A d \in DOMAIN creates :
                        c # d => creates[c].luts # creates[d].luts
            /\ AddressesOf(ixs) = lut_accounts
            /\ \A k \in DOMAIN extends :
                  /\ Len(extends[k].ixs) \in 1..EXTEND_BUNDLE
                  /\ extends[k].outcome = "ok"
                  /\ extends[k].applied
                  /\ \A j \in DOMAIN extends[k].ixs :
                        /\ Len(extends[k].ixs[j].accounts) \in 1..EXTEND_CHUNK
                        /\ extends[k].ixs[j].lut = extends[k].luts[1]
            /\ Len(extends) = ExtendBundlesDue
            /\ \A c \in DOMAIN chunks :
                  LET to == SelectSeq(ixs,
                                LAMBDA ix : ix.lut = lut_local.lookup_tables[c])
                  IN  /\ AddressesOf(to) = chunks[c]
                      /\ lut_tables[lut_local.lookup_tables[c]].addresses
                            = chunks[c]

\* C19 witness: one address more than a table holds; two tables, the second
\* filled by a bundle of a single extend
C19_Witness ==
    /\ lut_pc = "open_ok"
    /\ Len(lut_accounts) > MAX_ACCOUNTS_PER_LUT
    /\ Len(lut_local.lookup_tables) = 2
    /\ Len(ThisCall("extend")) = 3

\* C20: every table on the ledger that holds an address and is not closed is
\* in the registry.
C20_PopulatedRegistered ==
    \A lut \in DOMAIN lut_tables :
        /\ lut_tables[lut].status # "closed"
        /\ Len(lut_tables[lut].addresses) > 0
        => InRegistry(lut_registry, lut)

-----------------------------------------------------------------------------
(* C18 *)

\* how many of the submissions name the table
TimesNamed(entries, lut) ==
    Cardinality({ki \in {<<k, i>> : k \in DOMAIN entries,
                                    i \in 1..Len(lut_local.luts)} :
                    /\ ki[2] \in DOMAIN entries[ki[1]].luts
                    /\ entries[ki[1]].luts[ki[2]] = lut})

\* C18: every deactivate and every close transaction of close_prior names at
\* most MAX_ACCOUNTS_PER_TX_CLOSE tables; and when close_prior is through its
\* two loops, each table of the registry was named by exactly one deactivate
\* and by exactly one close transaction of the call.
C18_CloseChunks ==
    /\ \A k \in DOMAIN lut_log :
          lut_log[k].op \in {"deactivate", "close"} =>
              Len(lut_log[k].luts) <= MAX_ACCOUNTS_PER_TX_CLOSE
    /\ lut_pc \in {"close_clear", "close_ok", "close_err"} =>
          \A i \in DOMAIN lut_local.luts :
              /\ TimesNamed(ThisCall("deactivate"), lut_local.luts[i]) = 1
              /\ TimesNamed(ThisCall("close"), lut_local.luts[i]) = 1

-----------------------------------------------------------------------------
(* C15 *)

\* the registry file of a pool
RegistryOf(files, boost) ==
    FileAt(files, registry_path(pool_luts_path, boost))

\* C15: a call of write_file, read_file or clear_file for one pool leaves the
\* registry file of every other pool as it was, in any order of the calls of
\* the pools.
C15_PoolIsolation ==
    [][\A other \in PoolBoosts :
          other # pool_op'.boost =>
              RegistryOf(pool_files', other) = RegistryOf(pool_files, other)
      ]_vars

\* C15 witness: the registry of pool A was cleared while the registry of
\* pool AB holds tables, which a read_file of AB's then returns
C15_Witness ==
    /\ pool_op.op = "read_file"
    /\ pool_op.boost = <<"A", "B">>
    /\ pool_op.luts = <<LutPda(1), LutPda(2)>>
    /\ RegistryOf(pool_files, <<"A">>) = [exists |-> TRUE, records |-> <<>>]

-----------------------------------------------------------------------------
(* C14 *)

\* the submissions rebase_all has to make for the accounts of this pass
SubmissionsDue ==
    IF Len(ctl_local.stake_accounts) = 0 THEN 1
    ELSE CeilDiv(Len(ctl_local.stake_accounts),
                 BUNDLE_SIZE * MAX_ACCOUNTS_PER_TX)

-----------------------------------------------------------------------------
(* C21: close_prior resumed *)

\* a call of close_prior that found the registry empty or missing, while it runs
RunsOnNothing ==
    /\ lut_pc \notin LutIdlePcs \cup {"close_read"}
    /\ lut_local.luts = <<>>

\* every table the registry listed is closed and the registry lists nothing
RotationDone ==
    /\ lut_registry.records = <<>>
    /\ \A lut \in DOMAIN lut_tables : lut_tables[lut].status = "closed"

\* C21: close_prior is resumable. However the process was ended inside
\* close_prior, once close_prior is run again and the ledger accepts what is
\* submitted, in the end every table the registry listed is closed and the
\* registry is empty, for good; and a run of close_prior that finds the
\* registry empty or missing submits no deactivate and no close.
C21_Resumable ==
    /\ <>[]RotationDone
    /\ [][RunsOnNothing => lut_log' = lut_log]_vars


-----------------------------------------------------------------------------
(* C22: the order of a start *)

\* where run is before it has returned or entered a loop
RunPcs == {"run", "time", "sync", "return", "returned"}

\* the calls of the given kind that ended well, by their place in the log
CallsDone(kind) ==
    {k \in DOMAIN ctl_log :
        ctl_log[k].kind = kind /\ ctl_log[k].outcome = "ok"}

\* C22: in a start of run the checkpoint is fetched before the lookup-table
\* sync runs, the sync works against the participants the boost has then, and
\* it has run before any rebase is submitted and before run is anywhere in
\* a loop; when the fetch of the checkpoint fails, nothing follows it: no
\* sync and no rebase submission.
C22_ColdStartOrder ==
    /\ \A k \in DOMAIN ctl_log :
          /\ ctl_log[k].kind = "sync" =>
                /\ \E j \in CallsDone("get_checkpoint") : j < k
                /\ ctl_log[k].txs = {StakePubkey(id) : id \in 0..(ctl_n - 1)}
          /\ ctl_log[k].kind \in {"transaction", "bundle"} =>
                \E j \in CallsDone("sync") : j < k
          /\ ctl_log[k].kind = "get_checkpoint" /\ ctl_log[k].outcome = "err"
                => k = Len(ctl_log)
    /\ ctl_submits > 0 \/ ctl_pc \notin RunPcs => CallsDone("sync") # {}
    /\ CallsDone("get_checkpoint") = {} => ctl_pc \in {"run", "returned"}

\* run has fetched the checkpoint, synced against a boost that has
\* participants, and returned Ok
C22_Witness ==
    /\ ctl_pc = "returned"
    /\ ctl_local.result = "Ok"
    /\ ctl_n > 0
    /\ Len(ctl_log) = 2
    /\ CallsDone("get_checkpoint") = {1}
    /\ CallsDone("sync") = {2}

=============================================================================
